---- MODULE Spec2Model ----
(***************************************************************************)
(* A model of gistapi.py: the /api/v1/search handler, the paginated gist   *)
(* list generator gists_for_user, the line matcher _gist_matches, and the  *)
(* retrying HTTP session built by make_session.  One behaviour is one      *)
(* request to the handler against one remote account.                      *)
(***************************************************************************)
EXTENDS Naturals, Sequences, FiniteSets

VARIABLES
    account,    \* the remote: how many non-empty list pages it has, and their shape
    request,    \* the JSON body posted to /api/v1/search
    pc,         \* "idle" | "list" (a list GET in flight) | "content" (a raw GET in flight) | "done"
    username,   \* post_data.username
    regex,      \* re.compile(post_data.pattern)
    page,       \* gists_for_user's page counter
    cur,        \* the page the for-loop of search is iterating
    gi,         \* index in cur of the gist _gist_matches is working on
    fi,         \* index in that gist's files of the file being fetched
    matches,    \* search's accumulating list
    call,       \* the session.get in progress: GETs issued so far and retries left
    listLog,    \* history: the list responses delivered to gists_for_user
    fetched,    \* history: the pages gists_for_user has yielded
    lastCall,   \* history: the last completed session.get
    lastScan,   \* history: the last completed _gist_matches that did I/O
    result      \* what the handler produced: a response, or an exception that escaped

vars == <<account, request, pc, username, regex, page, cur, gi, fi, matches,
          call, listLog, fetched, lastCall, lastScan, result>>

----------------------------------------------------------------------------
(* Bounds of the model *)

\* the remote account has at most this many non-empty list pages
MaxPages == 7
\* a list page holds at most this many gists
MaxGists == 2

(* Program constants *)

\* `while page <= 5`
PageLimit == 5
\* make_session(retries=3, ...)
Retries == 3
\* make_session(..., status_forcelist=(500, 502, 504))
StatusForcelist == {500, 502, 504}
\* requests.codes.ok, not_found, forbidden
CodeOk == 200
CodeNotFound == 404
CodeForbidden == 403

----------------------------------------------------------------------------
(* Regular expressions: patterns are sequences of characters; the modelled *)
(* fragment has literal characters and the group parentheses.              *)

Count(s, c) == Cardinality({i \in 1..Len(s) : s[i] = c})

\* re.compile raises re.error on a pattern that does not parse
ReCompiles(p) == Count(p, "(") = 0 /\ Count(p, ")") = 0

\* a mutant: search anywhere in the line (re.search)
ReSearch(p, line) ==
    \E k \in 0..Len(line) :
        k + Len(p) <= Len(line) /\ SubSeq(line, k + 1, k + Len(p)) = p

\* regex.match(line): the pattern must match at position 0 of the line
ReMatch(p, line) ==
    Len(p) <= Len(line) /\ SubSeq(line, 1, Len(p)) = p

----------------------------------------------------------------------------
(* The inbound request *)

Usernames == {"alice", "ghost"}
Patterns == {<<"a">>, <<"b">>, <<"(">>}

RequestBodies ==
    {[username |-> u, pattern |-> p] : u \in Usernames, p \in Patterns}
    \cup {[username |-> u] : u \in Usernames}

\* SearchRequestSchema.parse_obj: both fields are required
SchemaValid(body) == {"username", "pattern"} \subseteq DOMAIN body

----------------------------------------------------------------------------
(* The remote *)

\* what GET <raw_url> serves, as the lines iter_lines produces
RawUrls == {"r0", "r1", "r2"}
RawContent(url) ==
    CASE url = "r0" -> << >>
      [] url = "r1" -> << <<"b", "a">> >>
      [] url = "r2" -> << <<"b", "a">>, <<"a">>, <<"a", "b">> >>

\* the files mappings a gist can have, in the mapping's iteration order
FileLists == { << >>, <<"r1">>, <<"r1", "r2", "r0">>, <<"r2", "r1">> }

SeqsUpTo(S, n) == UNION {[1..k -> S] : k \in 1..n}

Accounts ==
    {[npages |-> n, shape |-> s] : n \in 0..MaxPages, s \in SeqsUpTo(FileLists, MaxGists)}

\* the JSON the list endpoint serves for page n of the account
AccountPage(acct, n) ==
    [kind |-> "list",
     items |-> IF n <= acct.npages
               THEN [j \in 1..Len(acct.shape) |->
                        [html_url |-> <<n, j>>, files |-> acct.shape[j]]]
               ELSE << >>]

\* other bodies a 200 response can carry
NotJson == [kind |-> "notjson"]
JsonNull == [kind |-> "null"]
EmptyObject == [kind |-> "object", members |-> {}]
ErrorObject == [kind |-> "object", members |-> {"message"}]
BadItemList == [kind |-> "list", items |-> <<[html_url |-> <<0, 0>>]>>]
OddBodies == {NotJson, JsonNull, EmptyObject, ErrorObject, BadItemList}

ListStatuses == {200, 204, 403, 404, 429, 500, 502, 503, 504}
ContentStatuses == {200, 404, 500, 502, 504}

\* what one GET attempt on the list endpoint can come back with
ListOutcomes(acct, n) ==
    {[t |-> "connfail"]}
    \cup {[t |-> "resp", status |-> s, body |-> b] :
              s \in ListStatuses \ {CodeOk}, b \in {ErrorObject, EmptyObject, NotJson}}
    \cup {[t |-> "resp", status |-> CodeOk, body |-> b] : b \in {AccountPage(acct, n)} \cup OddBodies}

\* what one GET attempt on a raw url can come back with
ContentOutcomes(url) ==
    {[t |-> "connfail"]}
    \cup {[t |-> "resp", status |-> s, body |-> RawContent(url)] : s \in ContentStatuses}

----------------------------------------------------------------------------
(* make_session: the retry policy mounted on every session *)

\* a mutant: a session that never retries
NeverRetry(o, left) == FALSE

\* Retry(total=retries, read=retries, connect=retries, status_forcelist=...):
\* an attempt is repeated while the budget lasts, on a connection failure and
\* on a status of the forcelist
ShouldRetry(o, left) ==
    /\ left > 0
    /\ \/ o.t = "connfail"
       \/ o.t = "resp" /\ o.status \in StatusForcelist

\* what session.get hands to its caller once no retry follows
GetResult(o) ==
    IF o.t = "connfail" THEN [t |-> "raise", exc |-> "ConnectionError"]
    ELSE IF o.status \in StatusForcelist THEN [t |-> "raise", exc |-> "RetryError"]
    ELSE [t |-> "resp", status |-> o.status, body |-> o.body]

NewCall == [attempts |-> 0, left |-> Retries]
NoCall == [attempts |-> 0, left |-> 0]

----------------------------------------------------------------------------
(* gists_for_user: one iteration of its loop body, after session.get *)

\* `not data`
Falsy(data) ==
    \/ data.kind = "null"
    \/ data.kind = "object" /\ data.members = {}
    \/ data.kind = "list" /\ data.items = << >>

\* pydantic.parse_obj_as(List[GistApiResponseSchema], data)
ValidGist(item) == {"html_url", "files"} \subseteq DOMAIN item
Parses(data) ==
    /\ data.kind = "list"
    /\ \A i \in 1..Len(data.items) : ValidGist(data.items[i])

\* a mutant: only server errors are treated as unexpected
GistsForUserStepLax(resp) ==
    IF resp.status = CodeNotFound THEN [t |-> "raise", exc |-> "UserNotFound"]
    ELSE IF resp.status = CodeForbidden THEN [t |-> "raise", exc |-> "UnexpectedStatusCode"]
    ELSE IF resp.status >= 500 THEN [t |-> "raise", exc |-> "UnexpectedStatusCode"]
    ELSE IF resp.body.kind = "notjson" THEN [t |-> "raise", exc |-> "JSONDecodeError"]
    ELSE IF Falsy(resp.body) THEN [t |-> "return"]
    ELSE IF Parses(resp.body) THEN [t |-> "yield", page |-> resp.body.items]
    ELSE [t |-> "raise", exc |-> "MalformedResponse"]

\* a mutant: the empty page is not recognised as the end
GistsForUserStepNoEnd(resp) ==
    IF resp.status = CodeNotFound THEN [t |-> "raise", exc |-> "UserNotFound"]
    ELSE IF resp.status = CodeForbidden THEN [t |-> "raise", exc |-> "UnexpectedStatusCode"]
    ELSE IF resp.status # CodeOk THEN [t |-> "raise", exc |-> "UnexpectedStatusCode"]
    ELSE IF resp.body.kind = "notjson" THEN [t |-> "raise", exc |-> "JSONDecodeError"]
    ELSE IF Parses(resp.body) THEN [t |-> "yield", page |-> resp.body.items]
    ELSE [t |-> "raise", exc |-> "MalformedResponse"]

GistsForUserStep(resp) ==
    IF resp.status = CodeNotFound THEN [t |-> "raise", exc |-> "UserNotFound"]
    ELSE IF resp.status = CodeForbidden THEN [t |-> "raise", exc |-> "UnexpectedStatusCode"]
    ELSE IF resp.status # CodeOk THEN [t |-> "raise", exc |-> "UnexpectedStatusCode"]
    ELSE IF resp.body.kind = "notjson" THEN [t |-> "raise", exc |-> "JSONDecodeError"]
    ELSE IF Falsy(resp.body) THEN [t |-> "return"]
    ELSE IF Parses(resp.body) THEN [t |-> "yield", page |-> resp.body.items]
    ELSE [t |-> "raise", exc |-> "MalformedResponse"]

----------------------------------------------------------------------------
(* _gist_matches and _fetch_file_lines *)

\* `for line in ...: if regex.match(line): return True`: the lines tested
\* before the loop ends, and whether it ended on a match
RECURSIVE ScanFromLine(_, _, _)
ScanFromLine(lines, p, i) ==
    IF i > Len(lines) THEN [tested |-> Len(lines), matched |-> FALSE]
    ELSE IF ReMatch(p, lines[i]) THEN [tested |-> i, matched |-> TRUE]
    ELSE ScanFromLine(lines, p, i + 1)

ScanLines(lines, p) == ScanFromLine(lines, p, 1)

\* the for-loop of search moves on to the next gist that needs I/O: a gist
\* with no files makes _gist_matches return False at once
RECURSIVE NextGist(_, _)
NextGist(gists, i) ==
    IF i > Len(gists) THEN i
    ELSE IF gists[i].files = << >> THEN NextGist(gists, i + 1)
    ELSE i

----------------------------------------------------------------------------
(* search: the responses *)

ValidationResponse ==
    [kind |-> "response", code |-> 400,
     body |-> [status |-> "error", message |-> "validation detail"]]

\* a mutant: the error body carries the matches found so far
ErrorResponsePartial(exc, user, m) ==
    IF exc = "UserNotFound"
    THEN [kind |-> "response", code |-> 404,
          body |-> [status |-> "error", message |-> <<"User", user, "not found">>,
                    matches |-> m]]
    ELSE IF exc \in {"MalformedResponse", "UnexpectedStatusCode"}
    THEN [kind |-> "response", code |-> 500,
          body |-> [status |-> "error", message |-> "Internal error", matches |-> m]]
    ELSE [kind |-> "unhandled", exc |-> exc]

\* the except clauses of search; any other exception leaves the handler
ErrorResponse(exc, user, m) ==
    IF exc = "UserNotFound"
    THEN [kind |-> "response", code |-> 404,
          body |-> [status |-> "error", message |-> <<"User", user, "not found">>]]
    ELSE IF exc \in {"MalformedResponse", "UnexpectedStatusCode"}
    THEN [kind |-> "response", code |-> 500,
          body |-> [status |-> "error", message |-> "Internal error"]]
    ELSE [kind |-> "unhandled", exc |-> exc]

\* matches.append(gist.html_url)
AddMatch(m, url) == Append(m, url)

SuccessResponse(user, re, m) ==
    [kind |-> "response", code |-> 200,
     body |-> [status |-> "success", username |-> user, pattern |-> re, matches |-> m]]

NoResult == [kind |-> "none"]
NoScan == [page |-> 0, gi |-> 0, requested |-> 0, tested |-> 0, result |-> FALSE]
NoLast == [kind |-> "none", attempts |-> 0, raised |-> FALSE]

----------------------------------------------------------------------------
(* The state machine *)

Init ==
    /\ account \in Accounts
    /\ request = [username |-> "alice"]
    /\ pc = "idle"
    /\ username = ""
    /\ regex = << >>
    /\ page = 0
    /\ cur = << >>
    /\ gi = 0
    /\ fi = 0
    /\ matches = << >>
    /\ call = NoCall
    /\ listLog = << >>
    /\ fetched = << >>
    /\ lastCall = NoLast
    /\ lastScan = NoScan
    /\ result = NoResult

\* the control state the handler is left in: its position and its variables
Ctl(c, p, g, f, m, cl, res) ==
    [pc |-> c, page |-> p, gi |-> g, fi |-> f, matches |-> m, call |-> cl, result |-> res]

\* the handler has ended with res
Done(res, p, m) == Ctl("done", p, 0, 0, m, NoCall, res)

\* the head of gists_for_user's loop: `while page <= 5: page += 1; session.get`;
\* when the loop ends the generator is exhausted and search builds its result
LoopHead(p, m, user, re) ==
    IF p <= PageLimit
    THEN Ctl("list", p + 1, 0, 0, m, NewCall, NoResult)
    ELSE Done(SuccessResponse(user, re, m), p, m)

\* `for gist in page` resumed at index i: up to the next session.get
ScanFrom(gists, i, p, m, user, re) ==
    LET j == NextGist(gists, i) IN
    IF j > Len(gists)
    THEN LoopHead(p, m, user, re)
    ELSE Ctl("content", p, j, 1, m, NewCall, NoResult)

\* a mutant: the files after a matching one are fetched too
AfterFileNoBreak(files, f, matched) ==
    IF f < Len(files) THEN "next" ELSE IF matched THEN "true" ELSE "false"

\* _gist_matches once a file's lines are scanned: return True, go to the
\* next file, or return False
AfterFile(files, f, matched) ==
    IF matched THEN "true" ELSE IF f < Len(files) THEN "next" ELSE "false"

Apply(c) ==
    /\ pc' = c.pc
    /\ page' = c.page
    /\ gi' = c.gi
    /\ fi' = c.fi
    /\ matches' = c.matches
    /\ call' = c.call
    /\ result' = c.result

\* search, from the request to its first session.get
Search(body) ==
    /\ pc = "idle"
    /\ request' = body
    /\ UNCHANGED <<account, cur, listLog, fetched, lastCall, lastScan>>
    /\ IF ~SchemaValid(body)
       THEN /\ Apply(Done(ValidationResponse, 0, << >>))
            /\ UNCHANGED <<username, regex>>
       ELSE IF ~ReCompiles(body.pattern)
       THEN /\ Apply(Done([kind |-> "unhandled", exc |-> "re.error"], 0, << >>))
            /\ username' = body.username
            /\ UNCHANGED regex
       ELSE /\ username' = body.username
            /\ regex' = body.pattern
            /\ Apply(LoopHead(0, << >>, body.username, body.pattern))

\* one GET of the list endpoint by the session of gists_for_user, and, when
\* no retry follows, the rest of the loop body and of search up to the next GET
ListAttempt(o) ==
    /\ pc = "list"
    /\ UNCHANGED <<account, request, username, regex, lastScan>>
    /\ IF ShouldRetry(o, call.left)
       THEN /\ call' = [attempts |-> call.attempts + 1, left |-> call.left - 1]
            /\ UNCHANGED <<pc, page, cur, gi, fi, matches, listLog, fetched, lastCall, result>>
       ELSE LET got == GetResult(o) IN
            /\ lastCall' = [kind |-> "list", attempts |-> call.attempts + 1,
                            raised |-> got.t = "raise"]
            /\ IF got.t = "raise"
               THEN /\ Apply(Done(ErrorResponse(got.exc, username, matches), page, matches))
                    /\ UNCHANGED <<cur, listLog, fetched>>
               ELSE LET step == GistsForUserStep(got) IN
                    /\ listLog' = Append(listLog, [status |-> got.status, body |-> got.body])
                    /\ IF step.t = "raise"
                       THEN /\ Apply(Done(ErrorResponse(step.exc, username, matches), page, matches))
                            /\ UNCHANGED <<cur, fetched>>
                       ELSE IF step.t = "return"
                       THEN /\ Apply(Done(SuccessResponse(username, regex, matches), page, matches))
                            /\ UNCHANGED <<cur, fetched>>
                       ELSE /\ cur' = step.page
                            /\ fetched' = Append(fetched, step.page)
                            /\ Apply(ScanFrom(step.page, 1, page, matches, username, regex))

\* one GET of a raw url by the session of _fetch_file_lines, and, when no
\* retry follows, the scan of the lines and the rest of search up to the next GET
ContentAttempt(o) ==
    /\ pc = "content"
    /\ UNCHANGED <<account, request, username, regex, cur, listLog, fetched>>
    /\ IF ShouldRetry(o, call.left)
       THEN /\ call' = [attempts |-> call.attempts + 1, left |-> call.left - 1]
            /\ UNCHANGED <<pc, page, gi, fi, matches, lastCall, lastScan, result>>
       ELSE LET got == GetResult(o) IN
            /\ lastCall' = [kind |-> "content", attempts |-> call.attempts + 1,
                            raised |-> got.t = "raise"]
            /\ IF got.t = "raise"
               THEN /\ Apply(Done(ErrorResponse(got.exc, username, matches), page, matches))
                    /\ UNCHANGED lastScan
               ELSE LET scan == ScanLines(got.body, regex)
                        then == AfterFile(cur[gi].files, fi, scan.matched)
                        m2   == IF then = "true" THEN AddMatch(matches, cur[gi].html_url)
                                ELSE matches
                    IN
                    IF then = "next"
                    THEN /\ Apply(Ctl("content", page, gi, fi + 1, matches, NewCall, NoResult))
                         /\ UNCHANGED lastScan
                    ELSE /\ lastScan' = [page |-> page, gi |-> gi, requested |-> fi,
                                         tested |-> scan.tested, result |-> then = "true"]
                         /\ Apply(ScanFrom(cur, gi + 1, page, m2, username, regex))

Next ==
    \/ \E body \in RequestBodies : Search(body)
    \/ pc = "list" /\ \E o \in ListOutcomes(account, page) : ListAttempt(o)
    \/ pc = "content" /\ \E o \in ContentOutcomes(cur[gi].files[fi]) : ContentAttempt(o)

Spec == Init /\ [][Next]_vars

----------------------------------------------------------------------------
(* What the claims speak of *)

RECURSIVE Flatten(_)
Flatten(pages) ==
    IF pages = << >> THEN << >> ELSE Head(pages) \o Flatten(Tail(pages))

\* the literal p stands at the beginning of the line
StartsWith(line, p) == \E rest \in {SubSeq(line, k, Len(line)) : k \in 1..(Len(line) + 1)} : line = p \o rest

\* file f of gist g has a line that starts with p
FileHasMatch(g, f, p) ==
    \E l \in 1..Len(RawContent(g.files[f])) : StartsWith(RawContent(g.files[f])[l], p)

\* some line of some file of gist g matches
HasMatchingLine(g, p) == \E f \in 1..Len(g.files) : FileHasMatch(g, f, p)

\* the html_url of the gists of the pages that have a matching line, in order
ExpectedMatches(pages, p) ==
    LET all == Flatten(pages)
        Hit(g) == HasMatchingLine(g, p)
        hits == SelectSeq(all, Hit)
    IN [i \in 1..Len(hits) |-> hits[i].html_url]

Min(S) == CHOOSE x \in S : \A y \in S : x <= y

Succeeded == pc = "done" /\ result.kind = "response" /\ result.code = 200
IsEmptyList(b) == b.kind = "list" /\ b.items = << >>

NotFoundResponse(user) ==
    [kind |-> "response", code |-> 404,
     body |-> [status |-> "error", message |-> <<"User", user, "not found">>]]
InternalErrorResponse ==
    [kind |-> "response", code |-> 500,
     body |-> [status |-> "error", message |-> "Internal error"]]

\* C1: gists_for_user requests only the page numbers 1 to 5 and yields at most
\* 5 pages, so search computes its matches over at most 5 pages.
C1_PageCeiling ==
    /\ page <= PageLimit
    /\ Len(fetched) <= PageLimit
    /\ Len(listLog) <= PageLimit

\* C2: a well-formed request whose pattern does not compile ends in a 400
\* validation response, and no outbound request has been made.
C2_BadPatternRejected ==
    (pc = "done" /\ SchemaValid(request) /\ ~ReCompiles(request.pattern))
        => /\ result.kind = "response"
           /\ result.code = 400
           /\ lastCall.kind = "none"
           /\ page = 0

\* C3: once a list request has been made and no content fetch has failed,
\* search ends with one of its documented responses (404, 500, 200), never
\* with an exception leaving the handler.
C3_ListFailuresClassified ==
    (pc = "done" /\ page >= 1 /\ ~(lastCall.kind = "content" /\ lastCall.raised))
        => /\ result.kind = "response"
           /\ result.code \in {200, 404, 500}

\* C4: a list response with a status outside 2xx, for any page, is the last
\* one and decides the outcome: 404 gives the 404 'User <username> not found'
\* response, any other such status the 500 'Internal error' response, and no
\* page is parsed from it.
C4_StatusDecides ==
    \A i \in 1..Len(listLog) :
        listLog[i].status \notin 200..299
            => /\ i = Len(listLog)
               /\ pc = "done"
               /\ Len(fetched) = i - 1
               /\ result = IF listLog[i].status = 404
                           THEN NotFoundResponse(request.username)
                           ELSE InternalErrorResponse

C4_Witness ==
    /\ pc = "done"
    /\ Len(listLog) = 3
    /\ listLog[3].status = 404
    /\ matches # << >>
    /\ result = NotFoundResponse("ghost")

C6_MatchesExact ==
    Succeeded
        => /\ result.body.matches = ExpectedMatches(fetched, regex)
           /\ \A i \in 1..Len(fetched) : fetched[i] = AccountPage(account, i).items
           /\ account.npages = 0 => result.body.matches = << >>

C6_Witness ==
    /\ Succeeded
    /\ regex = <<"a">>
    /\ account.shape = << <<"r1">>, <<"r1", "r2", "r0">> >>
    /\ result.body.matches = << <<1, 2>>, <<2, 2>> >>

\* C7: _gist_matches returns True exactly for a gist with a matching line; it
\* then has requested the files up to the first one with a matching line and
\* none after it, and has tested the lines of that file up to the first
\* matching one and none after it.
C7_ShortCircuit ==
    lastScan.gi > 0 =>
        LET g == fetched[lastScan.page][lastScan.gi] IN
        /\ lastScan.result = HasMatchingLine(g, regex)
        /\ lastScan.result =>
             LET k == Min({f \in 1..Len(g.files) : FileHasMatch(g, f, regex)})
                 lines == RawContent(g.files[k])
             IN /\ lastScan.requested = k
                /\ lastScan.tested = Min({l \in 1..Len(lines) : StartsWith(lines[l], regex)})
        /\ ~lastScan.result => lastScan.requested = Len(g.files)

C7_Witness ==
    /\ lastScan.result
    /\ lastScan.requested = 2
    /\ Len(fetched[lastScan.page][lastScan.gi].files) = 3
    /\ lastScan.tested = 2
    /\ Len(RawContent(fetched[lastScan.page][lastScan.gi].files[2])) = 3

\* C8: a 200 list response with body [] for page n is the last list request;
\* search is then done with the success response whose matches are those of
\* pages 1 to n-1.
C8_EmptyPageEnds ==
    \A n \in 1..Len(listLog) :
        (listLog[n].status = 200 /\ IsEmptyList(listLog[n].body))
            => /\ n = Len(listLog)
               /\ page = n
               /\ Len(fetched) = n - 1
               /\ Succeeded
               /\ result.body.matches = ExpectedMatches(fetched, regex)

C8_Witness ==
    /\ Len(listLog) = 3
    /\ listLog[3].status = 200
    /\ IsEmptyList(listLog[3].body)
    /\ Succeeded
    /\ Len(result.body.matches) = 4

\* C9: a 200 list response whose decoded body is not a list of gist objects,
\* an empty object or null included, makes search return the 500 'Internal
\* error' response.
C9_MalformedIs500 ==
    \A i \in 1..Len(listLog) :
        (listLog[i].status = 200 /\ listLog[i].body.kind # "notjson" /\ ~Parses(listLog[i].body))
            => /\ pc = "done"
               /\ result = InternalErrorResponse

\* C10 as stated: every visited file costs exactly one GET of its raw url.
C10_OneGetPerFile ==
    /\ pc = "content" => call.attempts = 0
    /\ lastCall.kind = "content" => lastCall.attempts = 1

\* C10 as amended: every visited file costs between 1 and 1 + Retries GETs of
\* its raw url, and the fetch gives up with an error only after the last of them.
C10_ContentRetried ==
    /\ pc = "content" => call.attempts + call.left = Retries
    /\ lastCall.kind = "content"
         => /\ lastCall.attempts \in 1..(Retries + 1)
            /\ lastCall.raised => lastCall.attempts = Retries + 1

C10_Witness ==
    /\ lastCall.kind = "content"
    /\ lastCall.attempts = Retries + 1
    /\ ~lastCall.raised
    /\ lastScan.result

====
